---------------------------- MODULE Spec2Model ----------------------------
(***************************************************************************)
(* Local MCP Client (src/app.py): keyword routing of a query to an MCP     *)
(* backend, creation of the agent binding, the agent invocation, and the   *)
(* segmentation / annotation of the agent's raw text.                      *)
(*                                                                         *)
(* A Python str is a sequence of one-character strings.  An ordered dict   *)
(* (config["mcpServers"]) is a sequence of [key, keywords] records with    *)
(* pairwise distinct keys.  A keyword list is a set: the router only asks  *)
(* any(...) of it, which depends on neither order nor repetition.          *)
(***************************************************************************)
EXTENDS Naturals, Sequences, FiniteSets

VARIABLES
    config,     \* config["mcpServers"], in file order
    pc,         \* per call: position inside query_handler
    query,      \* per call: the argument of query_handler
    mcp_key,    \* per call: local mcp_key
    agent,      \* per call: local agent (the binding: id, key, instructions source)
    result,     \* per call: local result, [kind, val]
    lines,      \* per call: local lines
    idx,        \* per call: number of lines the for loop has consumed
    formatted,  \* per call: local formatted (list of blocks)
    buffer,     \* per call: local buffer (pending prose lines)
    response,   \* per call: the returned markdown (first component of the tuple)
    exc,        \* per call: the exception leaving query_handler, "" if none
    trace,      \* per call: history of the calls query_handler has made
    open,       \* ids of the MCP tool handles that are spawned and not released
    text,       \* auto_format_backticks: local text
    prev,       \* auto_format_backticks: text before the latest re.sub
    orig,       \* auto_format_backticks: the argument
    stage       \* auto_format_backticks: number of re.sub passes done

hvars == <<pc, query, mcp_key, agent, result, lines, idx, formatted, buffer,
           response, exc, trace, open>>
avars == <<text, prev, orig, stage>>
vars == <<config, pc, query, mcp_key, agent, result, lines, idx, formatted,
          buffer, response, exc, trace, open, text, prev, orig, stage>>

----------------------------------------------------------------------------
(* Bounds of the model *)

NumCalls == 2        \* concurrent calls of query_handler
MaxBackends == 2     \* entries of config["mcpServers"] (router specification)
MaxQueryLen == 3     \* characters of a query (router specification)
MaxPieces == 3       \* pieces concatenated into a raw agent text
MaxTokens == 3       \* pieces concatenated into an annotator input

Calls == 1..NumCalls

----------------------------------------------------------------------------
(* Strings.  Every input of the model is ASCII text, on which str.lower,     *)
(* \w and \b act as defined here.                                          *)

Range(s) == {s[i] : i \in 1..Len(s)}

Min(S) == CHOOSE x \in S : \A y \in S : x <= y

RECURSIVE Concat(_)
Concat(ss) == IF ss = <<>> THEN <<>> ELSE Head(ss) \o Concat(Tail(ss))

\* All sequences over S of length 0..n
SeqUpTo(S, n) == UNION {[1..k -> S] : k \in 0..n}

UpperChars == <<"A","B","C","D","E","F","G","H","I","J","K","L","M",
                "N","O","P","Q","R","S","T","U","V","W","X","Y","Z">>
LowerChars == <<"a","b","c","d","e","f","g","h","i","j","k","l","m",
                "n","o","p","q","r","s","t","u","v","w","x","y","z">>
Digits == {"0","1","2","3","4","5","6","7","8","9"}

\* str.lower() on one character
LowerChar(c) ==
    IF \E i \in 1..26 : UpperChars[i] = c
    THEN LowerChars[CHOOSE i \in 1..26 : UpperChars[i] = c]
    ELSE c

\* str.lower()
lower(s) == [i \in 1..Len(s) |-> LowerChar(s[i])]

\* kw in q
IsSubstr(kw, q) ==
    /\ Len(kw) <= Len(q)
    /\ \E i \in 0..(Len(q) - Len(kw)) : SubSeq(q, i + 1, i + Len(kw)) = kw

----------------------------------------------------------------------------
(* choose_mcp_key *)

\* A router that compares the keywords with the query as typed.
ServerMatchesCaseSensitive(server, q) == \E kw \in server.keywords : IsSubstr(kw, q)

\* any(kw in query.lower() for kw in server.get("keywords", []))
ServerMatches(server, q) == \E kw \in server.keywords : IsSubstr(kw, lower(q))

\* A router that falls back to the last backend.
FallbackLast(cfg) == cfg[Len(cfg)].key

\* next(iter(config["mcpServers"]))
Fallback(cfg) == cfg[1].key

\* for key, server in config["mcpServers"].items(): ... return key
RECURSIVE ScanServers(_, _, _)
ScanServers(cfg, q, i) ==
    IF i > Len(cfg) THEN Fallback(cfg)
    ELSE IF ServerMatches(cfg[i], q) THEN cfg[i].key
    ELSE ScanServers(cfg, q, i + 1)

choose_mcp_key(q) == ScanServers(config, q, 1)

----------------------------------------------------------------------------
(* str.splitlines, str.strip and the line classes of query_handler *)

\* The line boundaries of str.splitlines; "\r" followed by "\n" is one boundary.
LineSeps == {"\n", "\r", "\f"}

\* The characters str.strip() removes.
Whitespace == {" ", "\t", "\n", "\r", "\f"}

\* Index of the first line boundary of s, Len(s) + 1 if it has none
FirstSep(s) == Min({k \in 1..(Len(s) + 1) : k = Len(s) + 1 \/ s[k] \in LineSeps})

\* result.splitlines()
RECURSIVE splitlines(_)
splitlines(s) ==
    IF s = <<>> THEN <<>>
    ELSE LET k == FirstSep(s)
             after == IF k < Len(s) /\ s[k] = "\r" /\ s[k + 1] = "\n"
                      THEN k + 2 ELSE k + 1
         IN  <<SubSeq(s, 1, k - 1)>> \o splitlines(SubSeq(s, after, Len(s)))

\* line.strip()
strip(s) ==
    LET keep == {k \in 1..Len(s) : s[k] \notin Whitespace}
    IN  IF keep = {} THEN <<>>
        ELSE SubSeq(s, Min(keep), CHOOSE k \in keep : \A j \in keep : j <= k)

\* line.strip().startswith("{") and line.strip().endswith("}")
IsJsonLine(line) ==
    LET s == strip(line)
    IN  s /= <<>> /\ s[1] = "{" /\ s[Len(s)] = "}"

\* line.strip() == "" or re.match(r"^[*#-] ", line.strip())
IsVerbatimLine(line) ==
    LET s == strip(line)
    IN  \/ s = <<>>
        \/ Len(s) >= 2 /\ s[1] \in {"*", "#", "-"} /\ s[2] = " "

\* the else branch: the line goes to the prose buffer
IsProseLine(line) == ~IsJsonLine(line) /\ ~IsVerbatimLine(line)

\* "\n".join(xs)
RECURSIVE JoinNL(_)
JoinNL(xs) ==
    IF xs = <<>> THEN <<>>
    ELSE IF Len(xs) = 1 THEN xs[1]
    ELSE xs[1] \o <<"\n">> \o JoinNL(Tail(xs))

\* The backquote character (the inline-code marker), which a TLA+ string
\* literal cannot hold.
Backtick == "BACKTICK"

\* three backquotes + "json\n" + line.strip() + "\n" + three backquotes
Fence(line) ==
    <<Backtick, Backtick, Backtick, "j", "s", "o", "n", "\n">> \o strip(line)
        \o <<"\n", Backtick, Backtick, Backtick>>

\* flush_buffer(): the new value of formatted (buffer is cleared by the caller)
flush_buffer(fmt, buf) == IF buf /= <<>> THEN Append(fmt, JoinNL(buf)) ELSE fmt

\* A loop body that forgets to flush before a JSON line and emits the fenced
\* line together with the pending prose.
ProcessLineMerging(fmt, buf, line) ==
    IF IsJsonLine(line)
    THEN [formatted |-> Append(fmt, JoinNL(Append(buf, Fence(line)))), buffer |-> <<>>]
    ELSE IF IsVerbatimLine(line)
    THEN [formatted |-> Append(flush_buffer(fmt, buf), line), buffer |-> <<>>]
    ELSE [formatted |-> fmt, buffer |-> Append(buf, line)]

\* A loop body that flushes every prose line at once instead of buffering it.
ProcessLineNoCoalesce(fmt, buf, line) ==
    IF IsJsonLine(line)
    THEN [formatted |-> Append(flush_buffer(fmt, buf), Fence(line)), buffer |-> <<>>]
    ELSE IF IsVerbatimLine(line)
    THEN [formatted |-> Append(flush_buffer(fmt, buf), line), buffer |-> <<>>]
    ELSE [formatted |-> Append(fmt, line), buffer |-> <<>>]

\* One iteration of "for line in lines"
ProcessLine(fmt, buf, line) ==
    IF IsJsonLine(line)
    THEN [formatted |-> Append(flush_buffer(fmt, buf), Fence(line)), buffer |-> <<>>]
    ELSE IF IsVerbatimLine(line)
    THEN [formatted |-> Append(flush_buffer(fmt, buf), line), buffer |-> <<>>]
    ELSE [formatted |-> fmt, buffer |-> Append(buf, line)]

----------------------------------------------------------------------------
(* auto_format_backticks: the four re.sub passes *)

HashLen == 64

Letters == Range(UpperChars) \cup Range(LowerChars)

\* [A-Za-z0-9_], which on ASCII text is also \w
WordChars == Letters \cup Digits \cup {"_"}

\* [a-fA-F0-9] and [0-9a-fA-F]
HexChars == Digits \cup {"a","b","c","d","e","f","A","B","C","D","E","F"}

\* (exe|dll|bin|so), in the order the alternation tries them
Extensions == << <<"e","x","e">>, <<"d","l","l">>, <<"b","i","n">>, <<"s","o">> >>

IsWordAt(t, k) == k >= 1 /\ k <= Len(t) /\ t[k] \in WordChars

\* \b between t[i-1] and t[i]  (i in 1..Len(t)+1)
AtBoundary(t, i) == IsWordAt(t, i - 1) /= IsWordAt(t, i)

\* First index >= i whose character is outside class, Len(t) + 1 if none
RunEnd(t, i, class) ==
    Min({k \in i..(Len(t) + 1) : k = Len(t) + 1 \/ t[k] \notin class})

\* t[i..] starts with the literal w
LitAt(t, i, w) == i + Len(w) - 1 <= Len(t) /\ SubSeq(t, i, i + Len(w) - 1) = w

\* \b([A-Za-z0-9_]+\.(exe|dll|bin|so))\b at i: length matched, 0 if no match
MatchFilename(t, i) ==
    LET j == RunEnd(t, i, WordChars)
        ok == {e \in 1..Len(Extensions) :
                 /\ LitAt(t, j + 1, Extensions[e])
                 /\ AtBoundary(t, j + 1 + Len(Extensions[e]))}
    IN  IF AtBoundary(t, i) /\ j > i /\ j <= Len(t) /\ t[j] = "." /\ ok /= {}
        THEN j + 1 + Len(Extensions[Min(ok)]) - i
        ELSE 0

\* \b([a-fA-F0-9]{64})\b at i
MatchSha256(t, i) ==
    IF /\ AtBoundary(t, i)
       /\ i + HashLen - 1 <= Len(t)
       /\ AtBoundary(t, i + HashLen)
       /\ \A k \in i..(i + HashLen - 1) : t[k] \in HexChars
    THEN HashLen
    ELSE 0

\* \b(0x[0-9a-fA-F]+)\b at i
MatchHex(t, i) ==
    LET j == RunEnd(t, i + 2, HexChars)
    IN  IF AtBoundary(t, i) /\ LitAt(t, i, <<"0", "x">>) /\ j > i + 2 /\ AtBoundary(t, j)
        THEN j - i
        ELSE 0

\* \b(_[a-zA-Z0-9_]+)\b at i
MatchSymbol(t, i) ==
    LET j == RunEnd(t, i + 1, WordChars)
    IN  IF AtBoundary(t, i) /\ LitAt(t, i, <<"_">>) /\ j > i + 1 /\ AtBoundary(t, j)
        THEN j - i
        ELSE 0

\* The pattern of pass p (1..4) tried at i
MatchLen(p, t, i) ==
    CASE p = 1 -> MatchFilename(t, i)
      [] p = 2 -> MatchSha256(t, i)
      [] p = 3 -> MatchHex(t, i)
      [] p = 4 -> MatchSymbol(t, i)

\* Start of the leftmost match of pass p at or after i, 0 if none
NextMatch(p, t, i) ==
    LET at == {k \in i..Len(t) : MatchLen(p, t, k) > 0}
    IN  IF at = {} THEN 0 ELSE Min(at)

\* Starts of the non-overlapping matches re.sub finds, scanning from i
RECURSIVE MatchStarts(_, _, _)
MatchStarts(p, t, i) ==
    LET k == NextMatch(p, t, i)
    IN  IF k = 0 THEN {} ELSE {k} \cup MatchStarts(p, t, k + MatchLen(p, t, k))

\* re.sub(pattern p, backquote \1 backquote, t), scanning from i
RECURSIVE SubFrom(_, _, _)
SubFrom(p, t, i) ==
    LET k == NextMatch(p, t, i)
        n == MatchLen(p, t, k)
    IN  IF k = 0 THEN SubSeq(t, i, Len(t))
        ELSE SubSeq(t, i, k - 1) \o <<Backtick>> \o SubSeq(t, k, k + n - 1) \o <<Backtick>>
             \o SubFrom(p, t, k + n)

re_sub(p, t) == SubFrom(p, t, 1)

auto_format_backticks(t) == re_sub(4, re_sub(3, re_sub(2, re_sub(1, t))))

----------------------------------------------------------------------------
(* Inputs *)

\* Keys of config["mcpServers"] (tests/test_local_mcp_client.py names the first two)
KeyPool == {"MalwareBazaar", "binja-lattice-mcp", "third-mcp"}

\* Keyword lists a backend may carry: none, the empty keyword, one, several
KeywordSets == {{}, {<<>>}, {<<"a">>}, {<<"a", "b">>}, {<<"b">>, <<"b", "a">>}}

\* Every ordered mapping of 1..MaxBackends backends with distinct keys
Configs ==
    {c \in SeqUpTo([key : KeyPool, keywords : KeywordSets], MaxBackends) :
        /\ Len(c) >= 1
        /\ \A i, j \in 1..Len(c) : i /= j => c[i].key /= c[j].key}

RouteAlphabet == {"a", "b", "A"}
Queries == SeqUpTo(RouteAlphabet, MaxQueryLen)

\* The configurations and queries of the query_handler specification
HandlerConfigs ==
    { << [key |-> "MalwareBazaar", keywords |-> {}],
         [key |-> "binja-lattice-mcp", keywords |-> {<<"a">>}] >>,
      << [key |-> "binja-lattice-mcp", keywords |-> {<<"b">>, <<"b", "a">>}],
         [key |-> "MalwareBazaar", keywords |-> {<<"a">>}] >> }
HandlerQueries == {<<"A">>, <<"b">>}

\* The query of the formatting specification
FormatQuery == <<"b">>

\* Texts agent.start returns in the query_handler specification
Replies == {<<>>, <<"a", "\n", "{", "}">>}

\* Exceptions agent.start raises
AgentErrors == {"ConnectionError", "TimeoutError"}

\* Pieces of a raw agent text: terminated lines of every class, and an
\* unterminated fragment that glues to the piece after it
RawPieces ==
    { <<"a", "\n">>,
      <<"b">>,
      <<" ", "{", "a", "}", " ", "\n">>,
      <<"{", "}", "\r", "\n">>,
      <<"*", " ", "a", "\n">>,
      <<" ", "\n">>,
      <<" ", "-", " ", "b", "\n">>,
      <<"#", "\n">> }
RawTexts == {Concat(ps) : ps \in SeqUpTo(RawPieces, MaxPieces)}

\* A 64-digit hexadecimal token
Sha == [i \in 1..HashLen |-> IF i % 2 = 1 THEN "a" ELSE "1"]

\* Pieces of an annotator input (none holds a backquote)
TokenPieces ==
    { Sha, <<"_", "g">>, <<"0", "x", "f">>, <<"g">>, <<".", "s", "o">>, <<".">>, <<" ">> }
AnnotTexts == {Concat(ps) : ps \in SeqUpTo(TokenPieces, MaxTokens)}

----------------------------------------------------------------------------
(* query_handler *)

\* "## MCP Agent Response\n\n"
Title ==
    <<"#","#"," ","M","C","P"," ","A","g","e","n","t"," ",
      "R","e","s","p","o","n","s","e","\n","\n">>

\* The fixed document of lines 103-106, kept as one opaque element
NoResultDoc ==
    <<"## Error\n\nThe agent returned no result. There may have been an internal LLM error (likely a missing or malformed tool call). Check the logs for details.">>

NoAgent == [id |-> 0, key |-> ""]
NoValue == [kind |-> "unset", val |-> <<>>]
Event(op, id, arg) == [op |-> op, id |-> id, arg |-> arg]

KeysOf(cfg) == {cfg[i].key : i \in 1..Len(cfg)}

\* What the locals of a finished or failed frame hold
Ended == {"returned", "raised"}

Init ==
    /\ config \in HandlerConfigs
    /\ pc = [c \in Calls |-> "idle"]
    /\ query = [c \in Calls |-> <<>>]
    /\ mcp_key = [c \in Calls |-> ""]
    /\ agent = [c \in Calls |-> NoAgent]
    /\ result = [c \in Calls |-> NoValue]
    /\ lines = [c \in Calls |-> <<>>]
    /\ idx = [c \in Calls |-> 0]
    /\ formatted = [c \in Calls |-> <<>>]
    /\ buffer = [c \in Calls |-> <<>>]
    /\ response = [c \in Calls |-> <<>>]
    /\ exc = [c \in Calls |-> ""]
    /\ trace = [c \in Calls |-> <<>>]
    /\ open = {}
    /\ text = <<>>
    /\ prev = <<>>
    /\ orig = <<>>
    /\ stage = 0

\* handle_query / the Gradio callback calls query_handler(q)
Call(c, q) ==
    /\ pc[c] = "idle"
    /\ pc' = [pc EXCEPT ![c] = "choose"]
    /\ query' = [query EXCEPT ![c] = q]
    /\ UNCHANGED <<config, mcp_key, agent, result, lines, idx, formatted, buffer,
                   response, exc, trace, open, avars>>

\* mcp_key = choose_mcp_key(query)
Select(c) ==
    /\ pc[c] = "choose"
    /\ mcp_key' = [mcp_key EXCEPT ![c] = choose_mcp_key(query[c])]
    /\ trace' = [trace EXCEPT ![c] = Append(@, Event("choose_mcp_key", 0, query[c]))]
    /\ pc' = [pc EXCEPT ![c] = "create"]
    /\ UNCHANGED <<config, query, agent, result, lines, idx, formatted, buffer,
                   response, exc, open, avars>>

\* A factory that keeps one binding per backend key and hands it out again.
PooledId(c, key) ==
    IF \E d \in Calls : agent[d].key = key /\ agent[d].id /= 0
    THEN agent[CHOOSE d \in Calls : agent[d].key = key /\ agent[d].id /= 0].id
    ELSE c

\* Agent(...) constructs a new object on every call of create_agent; the object
\* is named after the call that constructs it.
NewAgentId(c, key) == c

\* agent = create_agent(mcp_key): config["mcpServers"][mcp_key] raises KeyError
\* for an unknown key; otherwise MCP(...) spawns the tool handle the Agent owns.
Create(c) ==
    /\ pc[c] = "create"
    /\ IF mcp_key[c] \in KeysOf(config)
       THEN LET id == NewAgentId(c, mcp_key[c])
            IN  /\ agent' = [agent EXCEPT ![c] = [id |-> id, key |-> mcp_key[c]]]
                /\ open' = open \cup {id}
                /\ trace' = [trace EXCEPT
                       ![c] = Append(@, Event("create_agent", id, <<mcp_key[c]>>))]
                /\ pc' = [pc EXCEPT ![c] = "start"]
                /\ exc' = exc
       ELSE /\ exc' = [exc EXCEPT ![c] = "KeyError"]
            /\ pc' = [pc EXCEPT ![c] = "raised"]
            /\ UNCHANGED <<agent, open, trace>>
    /\ UNCHANGED <<config, query, mcp_key, result, lines, idx, formatted, buffer,
                   response, avars>>

\* result = agent.start(query) returns the text r
StartReturns(c, r) ==
    /\ pc[c] = "start"
    /\ result' = [result EXCEPT ![c] = [kind |-> "str", val |-> r]]
    /\ trace' = [trace EXCEPT ![c] = Append(@, Event("start", agent[c].id, query[c]))]
    /\ pc' = [pc EXCEPT ![c] = "check"]
    /\ UNCHANGED <<config, query, mcp_key, agent, lines, idx, formatted, buffer,
                   response, exc, open, avars>>

\* result = agent.start(query) returns None
StartReturnsNone(c) ==
    /\ pc[c] = "start"
    /\ result' = [result EXCEPT ![c] = [kind |-> "none", val |-> <<>>]]
    /\ trace' = [trace EXCEPT ![c] = Append(@, Event("start", agent[c].id, query[c]))]
    /\ pc' = [pc EXCEPT ![c] = "check"]
    /\ UNCHANGED <<config, query, mcp_key, agent, lines, idx, formatted, buffer,
                   response, exc, open, avars>>

\* result = agent.start(query) returns a value that is neither None nor a str
StartReturnsOther(c) ==
    /\ pc[c] = "start"
    /\ result' = [result EXCEPT ![c] = [kind |-> "other", val |-> <<>>]]
    /\ trace' = [trace EXCEPT ![c] = Append(@, Event("start", agent[c].id, query[c]))]
    /\ pc' = [pc EXCEPT ![c] = "check"]
    /\ UNCHANGED <<config, query, mcp_key, agent, lines, idx, formatted, buffer,
                   response, exc, open, avars>>

\* A handler that catches the agent's failure and answers the fixed document.
OnAgentErrorSwallow(c, e) ==
    /\ exc' = exc
    /\ response' = [response EXCEPT ![c] = NoResultDoc]
    /\ pc' = [pc EXCEPT ![c] = "returned"]

\* No try/except around line 100: the exception leaves query_handler as raised.
OnAgentError(c, e) ==
    /\ exc' = [exc EXCEPT ![c] = e]
    /\ response' = response
    /\ pc' = [pc EXCEPT ![c] = "raised"]

\* agent.start(query) raises e. The traceback keeps the frame, and with it the
\* binding, alive while e propagates: nothing is released here.
StartFails(c, e) ==
    /\ pc[c] = "start"
    /\ trace' = [trace EXCEPT
           ![c] = Append(Append(@, Event("start", agent[c].id, query[c])),
                         Event("start_raised", agent[c].id, <<e>>))]
    /\ OnAgentError(c, e)
    /\ UNCHANGED <<config, query, mcp_key, agent, result, lines, idx, formatted,
                   buffer, open, avars>>

\* A handler without the None guard of line 102.
IsNoResultUnguarded(r) == FALSE

\* if result is None
IsNoResult(r) == r.kind = "none"

\* How a return treats the binding: query_handler never closes the MCP handle;
\* it is released by the end of the call only if the runtime reclaims the Agent
\* as the local goes out of scope, which the code does not control.  What
\* happens to a handle after its call has ended is not modelled.
FrameExit(c) ==
    \E reclaimed \in BOOLEAN :
        open' = IF reclaimed THEN open \ {agent[c].id} ELSE open

\* lines 102-106: return the fixed error document
ReturnNoResult(c) ==
    /\ pc[c] = "check"
    /\ IsNoResult(result[c])
    /\ response' = [response EXCEPT ![c] = NoResultDoc]
    /\ pc' = [pc EXCEPT ![c] = "returned"]
    /\ FrameExit(c)
    /\ UNCHANGED <<config, query, mcp_key, agent, result, lines, idx, formatted,
                   buffer, exc, trace, avars>>

\* line 108: lines = result.splitlines(); AttributeError if result has no such method
Split(c) ==
    /\ pc[c] = "check"
    /\ ~IsNoResult(result[c])
    /\ IF result[c].kind = "str"
       THEN /\ lines' = [lines EXCEPT ![c] = splitlines(result[c].val)]
            /\ trace' = [trace EXCEPT ![c] = Append(@, Event("splitlines", 0, <<>>))]
            /\ pc' = [pc EXCEPT ![c] = "loop"]
            /\ exc' = exc
       ELSE /\ exc' = [exc EXCEPT ![c] = "AttributeError"]
            /\ pc' = [pc EXCEPT ![c] = "raised"]
            /\ UNCHANGED <<lines, trace>>
    /\ UNCHANGED <<config, query, mcp_key, agent, result, idx, formatted, buffer,
                   response, open, avars>>

\* lines 117-125: one iteration of the for loop
LoopStep(c) ==
    /\ pc[c] = "loop"
    /\ idx[c] < Len(lines[c])
    /\ LET r == ProcessLine(formatted[c], buffer[c], lines[c][idx[c] + 1])
       IN  /\ formatted' = [formatted EXCEPT ![c] = r.formatted]
           /\ buffer' = [buffer EXCEPT ![c] = r.buffer]
    /\ idx' = [idx EXCEPT ![c] = @ + 1]
    /\ UNCHANGED <<config, pc, query, mcp_key, agent, result, lines, response, exc,
                   trace, open, avars>>

\* lines 127-131: the last flush, the title, the annotation, the return
Finish(c) ==
    /\ pc[c] = "loop"
    /\ idx[c] = Len(lines[c])
    /\ LET blocks == flush_buffer(formatted[c], buffer[c])
       IN  /\ formatted' = [formatted EXCEPT ![c] = blocks]
           /\ buffer' = [buffer EXCEPT ![c] = <<>>]
           /\ response' = [response EXCEPT
                  ![c] = auto_format_backticks(Title \o JoinNL(blocks))]
    /\ trace' = [trace EXCEPT ![c] = Append(@, Event("auto_format_backticks", 0, <<>>))]
    /\ pc' = [pc EXCEPT ![c] = "returned"]
    /\ FrameExit(c)
    /\ UNCHANGED <<config, query, mcp_key, agent, result, lines, idx, exc, avars>>

Next ==
    \E c \in Calls :
        \/ \E q \in HandlerQueries : Call(c, q)
        \/ Select(c)
        \/ Create(c)
        \/ \E r \in Replies : StartReturns(c, r)
        \/ StartReturnsNone(c)
        \/ StartReturnsOther(c)
        \/ \E e \in AgentErrors : StartFails(c, e)
        \/ ReturnNoResult(c)
        \/ Split(c)
        \/ LoopStep(c)
        \/ Finish(c)

Spec == Init /\ [][Next]_vars

----------------------------------------------------------------------------
(* The router alone: every configuration, every query *)

InitRoute ==
    /\ config \in Configs
    /\ pc = [c \in Calls |-> "idle"]
    /\ query = [c \in Calls |-> <<>>]
    /\ mcp_key = [c \in Calls |-> ""]
    /\ agent = [c \in Calls |-> NoAgent]
    /\ result = [c \in Calls |-> NoValue]
    /\ lines = [c \in Calls |-> <<>>]
    /\ idx = [c \in Calls |-> 0]
    /\ formatted = [c \in Calls |-> <<>>]
    /\ buffer = [c \in Calls |-> <<>>]
    /\ response = [c \in Calls |-> <<>>]
    /\ exc = [c \in Calls |-> ""]
    /\ trace = [c \in Calls |-> <<>>]
    /\ open = {}
    /\ text = <<>>
    /\ prev = <<>>
    /\ orig = <<>>
    /\ stage = 0

NextRoute ==
    \/ \E q \in Queries : Call(1, q)
    \/ Select(1)
    \/ Create(1)

SpecRoute == InitRoute /\ [][NextRoute]_vars

----------------------------------------------------------------------------
(* The formatting step alone: one call, every raw text *)

NextFormat ==
    \/ Call(1, FormatQuery)
    \/ Select(1)
    \/ Create(1)
    \/ \E r \in RawTexts : StartReturns(1, r)
    \/ Split(1)
    \/ LoopStep(1)
    \/ Finish(1)

SpecFormat == Init /\ [][NextFormat]_vars

----------------------------------------------------------------------------
(* auto_format_backticks alone: every input, pass by pass *)

InitAnnot ==
    /\ config \in HandlerConfigs
    /\ pc = [c \in Calls |-> "idle"]
    /\ query = [c \in Calls |-> <<>>]
    /\ mcp_key = [c \in Calls |-> ""]
    /\ agent = [c \in Calls |-> NoAgent]
    /\ result = [c \in Calls |-> NoValue]
    /\ lines = [c \in Calls |-> <<>>]
    /\ idx = [c \in Calls |-> 0]
    /\ formatted = [c \in Calls |-> <<>>]
    /\ buffer = [c \in Calls |-> <<>>]
    /\ response = [c \in Calls |-> <<>>]
    /\ exc = [c \in Calls |-> ""]
    /\ trace = [c \in Calls |-> <<>>]
    /\ open = {}
    /\ orig \in AnnotTexts
    /\ text = orig
    /\ prev = orig
    /\ stage = 0

\* One re.sub of lines 81-84
Pass(p) ==
    /\ stage = p - 1
    /\ text' = re_sub(p, text)
    /\ prev' = text
    /\ stage' = p
    /\ UNCHANGED <<config, hvars, orig>>

\* line 81
PassFilename == Pass(1)
\* line 82
PassSha256 == Pass(2)
\* line 83
PassHex == Pass(3)
\* line 84
PassSymbol == Pass(4)

NextAnnot == PassFilename \/ PassSha256 \/ PassHex \/ PassSymbol

SpecAnnot == InitAnnot /\ [][NextAnnot]_vars

----------------------------------------------------------------------------
(* Properties of choose_mcp_key, checked under SpecRoute *)

\* Positions of the backends with a keyword that is a substring of the query,
\* compared case-insensitively
Matching(cfg, q) ==
    {i \in 1..Len(cfg) : \E kw \in cfg[i].keywords : IsSubstr(lower(kw), lower(q))}

Routed(c) == pc[c] \notin {"idle", "choose"}

\* C1: whenever some backend has a keyword that is a case-insensitive substring
\* of the query, choose_mcp_key returns the key of the first such backend in
\* configuration order, also when later backends match too.
C1_FirstMatchWins ==
    \A c \in Calls :
        (Routed(c) /\ Matching(config, query[c]) /= {})
            => mcp_key[c] = config[Min(Matching(config, query[c]))].key

\* A routed query with an upper-case letter that two backends match
C1_Witness ==
    /\ Routed(1)
    /\ "A" \in Range(query[1])
    /\ Cardinality(Matching(config, query[1])) >= 2
    /\ mcp_key[1] = config[1].key

\* C2: for a non-empty configuration choose_mcp_key never fails and returns a key
\* of the configuration (so create_agent's lookup raises no KeyError); when no
\* keyword is a substring of the lower-cased query it returns the first backend's
\* key.
C2_TotalWithFallback ==
    \A c \in Calls :
        Routed(c) =>
            /\ mcp_key[c] \in KeysOf(config)
            /\ exc[c] = ""
            /\ pc[c] /= "raised"
            /\ Matching(config, query[c]) = {} => mcp_key[c] = config[1].key

\* A non-empty query no backend of a two-backend configuration matches
C2_Witness ==
    /\ pc[1] = "start"
    /\ Len(config) >= 2
    /\ query[1] /= <<>>
    /\ \E i \in 1..Len(config) : config[i].keywords /= {}
    /\ Matching(config, query[1]) = {}
    /\ mcp_key[1] = config[1].key

----------------------------------------------------------------------------
(* Properties of query_handler, checked under Spec *)

HasEvent(c, op) == \E k \in 1..Len(trace[c]) : trace[c][k].op = op

\* Past line 100 with a value in result
PastCheck(c) == result[c].kind /= "unset" /\ pc[c] /= "check"

\* The outcome the claim C3 describes
AnswersNoResult(c) ==
    /\ pc[c] = "returned"
    /\ response[c] = NoResultDoc
    /\ exc[c] = ""
    /\ ~HasEvent(c, "splitlines")
    /\ lines[c] = <<>> /\ formatted[c] = <<>>

\* C3 as stated: whenever the raw result is empty or absent (no value, an empty
\* string, or a non-string value) the formatting step returns the fixed
\* "no result" document, without segmentation and without an exception.
C3_EmptyOrAbsent ==
    \A c \in Calls :
        (/\ PastCheck(c)
         /\ \/ result[c].kind = "none"
            \/ result[c].kind = "other"
            \/ (result[c].kind = "str" /\ result[c].val = <<>>))
            => AnswersNoResult(c)

\* C3 as amended: whenever the raw result is absent (None), the formatting step
\* returns the fixed "no result" document, without segmentation and without an
\* exception.
C3_NoneOnly ==
    \A c \in Calls :
        (PastCheck(c) /\ result[c].kind = "none") => AnswersNoResult(c)

C3_Witness ==
    \E c \in Calls :
        result[c].kind = "none" /\ pc[c] = "returned" /\ response[c] = NoResultDoc

IsCallEvent(e) == e.op \in {"choose_mcp_key", "create_agent", "start"}

\* C6: every call of query_handler performs, in this order, exactly one backend
\* selection, one creation of a fresh binding for the selected key and one agent
\* invocation with the unmodified query; the agent is never invoked again,
\* whether it returned text, returned nothing or failed.
C6_OneOfEachInOrder ==
    \A c \in Calls :
        LET made == SelectSeq(trace[c], IsCallEvent)
            want == << Event("choose_mcp_key", 0, query[c]),
                       Event("create_agent", agent[c].id, <<choose_mcp_key(query[c])>>),
                       Event("start", agent[c].id, query[c]) >>
        IN  /\ Len(made) <= 3
            /\ \A k \in 1..Len(made) : made[k] = want[k]
            /\ (pc[c] \in {"check", "loop"} \cup Ended) => Len(made) = 3
            /\ agent[c].id /= 0 =>
                   \A d \in Calls \ {c} : agent[d].id /= agent[c].id

\* One call ended on the "no result" document, another on the agent's failure
C6_Witness ==
    \E c, d \in Calls :
        /\ pc[c] = "returned" /\ result[c].kind = "none"
        /\ pc[d] = "raised" /\ HasEvent(d, "start_raised")
        /\ agent[c].key = agent[d].key

\* C7: a failure of the agent invocation reaches the caller unmodified (not
\* caught, not replaced by a document, the formatter not run); routing and
\* formatting raise nothing for a valid configuration and a string result.
C7_FailurePropagates ==
    \A c \in Calls :
        /\ \A k \in 1..Len(trace[c]) :
               trace[c][k].op = "start_raised" =>
                   /\ pc[c] = "raised"
                   /\ <<exc[c]>> = trace[c][k].arg
                   /\ response[c] = <<>>
                   /\ ~HasEvent(c, "splitlines")
                   /\ ~HasEvent(c, "auto_format_backticks")
        /\ (exc[c] /= "" \/ pc[c] = "raised") =>
               \/ HasEvent(c, "start_raised")
               \/ result[c].kind = "other"

C7_Witness ==
    \E c \in Calls : pc[c] = "raised" /\ exc[c] = "TimeoutError" /\ response[c] = <<>>

\* C8: on every exit path of query_handler (a document, the "no result" document,
\* a failure of the agent) the tool handle acquired with the binding has been
\* released before the call ends.
C8_ReleasedOnExit ==
    \A c \in Calls : pc[c] \in Ended => agent[c].id \notin open

----------------------------------------------------------------------------
(* Properties of the segmentation loop, checked under SpecFormat *)

\* Line j opens a block: it is the first line, or it or the line before it is
\* not prose
StartsBlock(ls, j) == j = 1 \/ ~IsProseLine(ls[j]) \/ ~IsProseLine(ls[j - 1])

\* Position of the block that holds line i
BlockIndex(ls, i) == Cardinality({j \in 1..i : StartsBlock(ls, j)})

\* The maximal run of prose lines around the prose line i, joined
ProseRun(ls, i) ==
    LET same == {j \in 1..Len(ls) : BlockIndex(ls, j) = BlockIndex(ls, i)}
    IN  JoinNL(SubSeq(ls, Min(same), CHOOSE j \in same : \A k \in same : k <= j))

Segmented(c) == pc[c] = "returned" /\ result[c].kind = "str"

\* C4: each line whose trimmed form starts with "{" and ends with "}" is a
\* fenced JSON block of its own; the prose pending before it is flushed as the
\* block before, and the prose after it starts the block after.
C4_JsonLineOwnBlock ==
    \A c \in Calls :
        Segmented(c) =>
            LET ls == lines[c]
                fmt == formatted[c]
            IN  \A i \in 1..Len(ls) :
                    IsJsonLine(ls[i]) =>
                        LET b == BlockIndex(ls, i)
                        IN  /\ b <= Len(fmt)
                            /\ fmt[b] = Fence(ls[i])
                            /\ (i > 1 /\ IsProseLine(ls[i - 1])) =>
                                   fmt[b - 1] = ProseRun(ls, i - 1)
                            /\ (i < Len(ls) /\ IsProseLine(ls[i + 1])) =>
                                   /\ b + 1 <= Len(fmt)
                                   /\ fmt[b + 1] = ProseRun(ls, i + 1)

\* A JSON line between two prose lines
C4_Witness ==
    /\ Segmented(1)
    /\ \E i \in 2..(Len(lines[1]) - 1) :
           /\ IsJsonLine(lines[1][i])
           /\ IsProseLine(lines[1][i - 1])
           /\ IsProseLine(lines[1][i + 1])

\* C9: the blocks keep the order of the raw lines; every maximal run of prose
\* lines (classified on the trimmed line, as the code does) is exactly one block,
\* those lines joined with newlines; each blank or list/heading line is a block
\* of its own, verbatim; no line is dropped or duplicated.
C9_OrderAndCoalescing ==
    \A c \in Calls :
        Segmented(c) =>
            LET ls == lines[c]
                fmt == formatted[c]
            IN  /\ Len(fmt) = BlockIndex(ls, Len(ls))
                /\ \A i \in 1..Len(ls) :
                       /\ IsVerbatimLine(ls[i]) /\ ~IsJsonLine(ls[i])
                              => fmt[BlockIndex(ls, i)] = ls[i]
                       /\ IsProseLine(ls[i])
                              => fmt[BlockIndex(ls, i)] = ProseRun(ls, i)

\* Two prose lines, then a list line, then prose again
C9_Witness ==
    /\ Segmented(1)
    /\ \E i \in 1..(Len(lines[1]) - 2) :
           /\ IsProseLine(lines[1][i])
           /\ IsProseLine(lines[1][i + 1])
           /\ IsVerbatimLine(lines[1][i + 2])
           /\ strip(lines[1][i + 2]) /= <<>>

----------------------------------------------------------------------------
(* Properties of auto_format_backticks, checked under SpecAnnot *)

\* Whole-token occurrences of a 64-digit hexadecimal token in t
ShaTokens(t) == {i \in 1..Len(t) : MatchSha256(t, i) > 0}

IsBacktickAt(t, k) == k >= 1 /\ k <= Len(t) /\ t[k] = Backtick

\* C5: after the four passes every whole-token occurrence of a 64-digit
\* hexadecimal token stands in the output wrapped exactly once: one backquote
\* before it and one after it.
C5_ShaWrappedOnce ==
    stage = 4 =>
        /\ Cardinality(ShaTokens(text)) = Cardinality(ShaTokens(orig))
        /\ \A i \in ShaTokens(text) :
               /\ IsBacktickAt(text, i - 1) /\ ~IsBacktickAt(text, i - 2)
               /\ IsBacktickAt(text, i + HashLen) /\ ~IsBacktickAt(text, i + HashLen + 1)

\* Position i of t lies inside a span an earlier pass wrapped (the inputs hold
\* no backquote of their own)
InsideSpan(t, i) == Cardinality({k \in 1..(i - 1) : t[k] = Backtick}) % 2 = 1

\* C10: no later pass wraps again text lying inside a span that an earlier pass
\* has wrapped in inline-code markers.
C10_NoRewrap ==
    stage \in 2..4 =>
        \A i \in MatchStarts(stage, prev, 1) : ~InsideSpan(prev, i)

====
